---- MODULE Spec2Model ----
(***************************************************************************)
(* A model of github.com/vedranvuk/ds: the TTL scheduler (ttl/ttl.go) with *)
(* its worker goroutine, its unbuffered command channels and its ticker,   *)
(* the session manager (sessions/sessions.go) built on top of it, and the   *)
(* prefix tree (trie/trie.go).                                             *)
(*                                                                         *)
(* Goroutines are processes with a program counter.  An unbuffered channel *)
(* operation is a rendezvous: one action moves the sender and the receiver *)
(* together.  Time is a discrete clock that any step may follow; nothing   *)
(* forces the worker to run when a deadline passes.                        *)
(***************************************************************************)
EXTENDS Integers, Sequences, FiniteSets, TLC

\* ------------------------------------------------------------------ bounds
NKeys == 2          \* keys the callers use: 1..NKeys
MaxTime == 3        \* the clock runs from 0 to MaxTime
MaxDur == 2         \* durations passed to Put: 0..MaxDur
MaxOps == 3         \* calls a caller thread makes
MaxWaits == 2       \* channels handed out by Wait
NUsers == 2         \* user IDs the session manager is given: 1..NUsers
MaxSessions == 2    \* sessions.New(maxSessions, ...): 1..MaxSessions
MaxPerUser == 2     \* sessions.New(..., maxSessionsPerUser, ...): 0..MaxPerUser
NRunes == 2         \* runes the trie's keys are made of: 1..NRunes
MaxKeyLen == 3      \* length of a trie key: 0..MaxKeyLen
NVals == 2          \* values put into the trie: 1..NVals
MaxTrieOps == 3     \* calls made on a trie

Keys == 1..NKeys
Durs == 0..MaxDur
Clients == {1, 2}
Chans == 1..MaxWaits
Users == 1..NUsers

\* ------------------------------------------------------- program constants
ZeroKey == 0            \* *new(K): the zero value of the key type
ZeroVal == 0            \* *new(V): the zero value of the trie's value type
ZeroTime == 0 - 100     \* time.Time{}: what dict[k] yields for a missing k
NoTime == 0 - 200       \* time.Date(0, 0, 0, ...): advanceQueue's "no entry"
TickerInit == 1         \* time.NewTicker(time.Second * 1)

Nil == "nil"
ErrNotFound == "ErrNotFound"
ErrNotRunning == "ErrNotRunning"
ErrMaxSessions == "ErrMaxSessions"
ErrMaxUserSessions == "ErrMaxUserSessions"
ErrBug == "bug"         \* removeSession's errors.New("bug: ...")

AllKeys == Keys \cup {ZeroKey}

\* --------------------------------------------------------------- variables
VARIABLES
    now,        \* time.Now()
    staleTicks, \* the build: TRUE when Stop and Reset leave a sent tick in
                \* ticker.C (Go before 1.23), FALSE when they discard it
    \* TTL fields
    keys,       \* self.keys: set of keys
    running,    \* self.running
    waiting,    \* self.waiting
    queue,      \* self.queue: sequence of [When, Key]
    dict,       \* self.dict: key -> When (ZeroTime when absent)
    waiters,    \* self.waiters: the channels enrolled by Wait
    \* worker goroutine
    key,        \* worker local: key
    when,       \* worker local: when
    ticker,     \* worker local: ticker, [on, at, c]
    wk,         \* where the worker is: [pc, ret, after, err, fall, cb]
    \* callers
    cl,         \* per caller thread: where it is (pc), the TTL call it is
                \* in (op, key, dur, when, res), the session manager call
                \* around it (sop, sid, uid, todo, sres), the calls made,
                \* whether a Stop of the thread has returned nil (stopped),
                \* whether the call is a Delete that follows a Delete of
                \* the same key that returned nil (again)
    notified,   \* Wait channels on which a notification was sent
    nextCh,     \* channels made so far
    \* sessions.Map fields (the TTL above is its timeouts field)
    mu,                 \* self.mu: 0 when free, else the thread holding it
    userCounts,         \* self.userCounts: user -> count
    userToSessions,     \* self.userToSessions: user -> set of sessions
    sessionToUser,      \* self.sessionToUser: session -> user
    sessionDurations,   \* self.sessionDurations: session -> duration
    totalCount,         \* self.totalCount
    nextKey,            \* the keys self.newKey() has made: 1..nextKey
    maxSessions,        \* self.maxSessions
    maxSessionsPerUser, \* self.maxSessionsPerUser
    \* trie.Trie
    root,               \* self.root, the tree of nodes under it
    compacting,         \* which Delete the package has: the compacting one
    tret,               \* the last call on the trie and what it returned
    tops,               \* calls made on the trie
    \* history
    stored,     \* the trie's key-value pairs by the Puts and Deletes made
    live,       \* sessions issued and not yet removed or expired
    fired,      \* the callback invocations so far, each with the key, the
                \* time, the key's registration then (st, in, due) and the
                \* deadlines of the other keys the worker held (pend)
    reg         \* per key, its latest registration: st is "none", "live"
                \* (Put took its deadline due), "fired" (its callback was
                \* invoked) or "deleted" (Delete returned); in says that
                \* the worker has received it

ttlVars == <<keys, running, waiting, queue, dict, waiters>>
workerVars == <<key, when, ticker, wk>>
callerVars == <<cl, notified, nextCh>>
histVars == <<fired, reg>>
mapVars == <<userCounts, userToSessions, sessionToUser, sessionDurations,
             totalCount>>
capVars == <<maxSessions, maxSessionsPerUser>>
sessVars == <<mu, mapVars, nextKey, live, capVars>>
trieVars == <<root, compacting, tret, tops, stored>>
nonTrieVars == <<now, staleTicks, ttlVars, workerVars, callerVars, histVars,
                 sessVars>>
vars == <<nonTrieVars, trieVars>>

\* ----------------------------------------------------------------- ticker
\* A tick is there to be received when one sits in the channel or the
\* running ticker's time has come.
TickReady(tk) == tk.c \/ (tk.on /\ now >= tk.at)

\* What Stop and Reset leave in ticker.C: nothing, or, on a build that
\* keeps sent ticks, the tick that was there or was due (the runtime may
\* or may not have sent it yet).
Left(tk) == IF staleTicks /\ TickReady(tk) THEN {TRUE, FALSE} ELSE {FALSE}

\* ticker.Stop(): no more ticks are sent.
TickerStop(tk) == {[on |-> FALSE, at |-> 0, c |-> b] : b \in Left(tk)}

\* ticker.Reset(d): the next tick comes d from now.
TickerReset(tk, d) == {[on |-> TRUE, at |-> now + d, c |-> b] : b \in Left(tk)}

\* ------------------------------------------------------------ the queue
\* insertTimeout's binary search: the first index (0-based) whose When is
\* not before w.
RECURSIVE insertIndex(_, _, _, _)
insertIndex(q, w, i, j) ==
    IF i < j
    THEN LET h == (i + j) \div 2
         IN  IF q[h + 1].When < w
             THEN insertIndex(q, w, h + 1, j)
             ELSE insertIndex(q, w, i, h)
    ELSE i

\* insertTimeout: the queue with t inserted at the index found.
insertTimeout(q, t) ==
    LET i == insertIndex(q, t.When, 0, Len(q))
    IN  SubSeq(q, 1, i) \o <<t>> \o SubSeq(q, i + 1, Len(q))

\* cmp: v against the When of q's entry at (0-based) i.
cmp(q, v, i) ==
    IF v < q[i + 1].When THEN 0 - 1
    ELSE IF v > q[i + 1].When THEN 1
    ELSE 0

\* findTimeout: binary search by When; [idx, found].
RECURSIVE findLoop(_, _, _, _)
findLoop(q, w, i, j) ==
    IF i < j
    THEN LET h == (i + j) \div 2
         IN  IF cmp(q, w, h) = 1 THEN findLoop(q, w, h + 1, j)
             ELSE IF cmp(q, w, h) = 0 THEN [idx |-> h, found |-> TRUE]
             ELSE findLoop(q, w, i, h)
    ELSE [idx |-> i, found |-> i < Len(q) /\ cmp(q, w, i) = 0]

findTimeout(q, w) == findLoop(q, w, 0, Len(q))

\* append(queue[:idx], queue[idx+1:]...)
removeAt(q, idx) == SubSeq(q, 1, idx) \o SubSeq(q, idx + 2, Len(q))

\* ------------------------------------------------------------- observers
\* Len()
TTLLen == Len(queue) + (IF waiting THEN 1 ELSE 0)

\* Exists(k)
Exists(k) == k \in keys

\* The entries the scheduler holds for k: the armed one and the queued ones.
Armed(k) == waiting /\ key = k
Queued(k) == \E i \in 1..Len(queue) : queue[i].Key = k
Pending(k) == Armed(k) \/ Queued(k)

\* ------------------------------------------------------------ the worker
\* Where the worker goroutine is:
\*   "select"   at the select of its loop
\*   "cb"       inside self.cb(wk.cb), called by doOnTimeout
\*   "ack"      at a send on addTimeout (the acknowledgement of a Put)
\*   "errsend"  at a send of wk.err on errchan
\*   "stopping" out of the loop, before the shutdown
\*   "pong"     at the send on pingWorker that ends the goroutine
\*   "done"     returned
\* wk.after says what follows the callback ("ack", or "advance": the loop of
\* advanceQueue), wk.ret the place advanceQueue returns to ("add", "del",
\* "tick"), wk.fall whether the send on errchan is followed by the
\* notification of the waiters (it is not after a continue).
WSelect ==
    [pc |-> "select", ret |-> "-", after |-> "-", err |-> "-",
     fall |-> FALSE, cb |-> ZeroKey]

WAck == [WSelect EXCEPT !.pc = "ack"]

WErr(e, fall) == [WSelect EXCEPT !.pc = "errsend", !.err = e, !.fall = fall]

\* Where a thread is when its TTL call returns: in no call, or back in the
\* session manager call that made it.
Back(r) == IF r.sop = "-" THEN "idle" ELSE "sret"

\* doOnTimeout(k): k leaves self.keys, then self.cb(k) is called, on the
\* worker goroutine.  The invocation is recorded with k's registration.
doOnTimeout(k, after, ret, r) ==
    /\ keys' = keys \ {k}
    /\ wk' = [pc |-> "cb", ret |-> ret, after |-> after, err |-> "-",
              fall |-> FALSE, cb |-> k]
    /\ fired' = Append(fired,
           [key |-> k, at |-> now, st |-> r[k].st, in |-> r[k].in,
            due |-> r[k].due,
            pend |-> {r[j].due : j \in {i \in Keys \ {k} :
                                           r[i].st = "live" /\ r[i].in}}])
    /\ reg' = [r EXCEPT ![k].st = IF @ = "live" THEN "fired" ELSE @]

\* "Fire wait waiters" at the end of a loop iteration.
FireWaiters(b) ==
    IF b
    THEN UNCHANGED <<waiters, notified>>
    ELSE /\ notified' = notified \cup waiters
         /\ waiters' = {}

\* key, when, b = self.advanceQueue(ticker); self.waiting.Store(b) and what
\* follows it at the call site ret.
Return(ret, k, w, b) ==
    /\ key' = k
    /\ when' = w
    /\ waiting' = b
    /\ UNCHANGED <<keys, fired, reg>>
    /\ IF ret = "add"
       THEN wk' = WAck /\ UNCHANGED <<waiters, notified>>
       ELSE IF ret = "del"
       THEN wk' = WErr(Nil, FALSE) /\ UNCHANGED <<waiters, notified>>
       ELSE wk' = WSelect /\ FireWaiters(b)

\* One iteration of advanceQueue's loop, called from ret, on queue q, dict
\* dct and ticker tk: return on an empty queue; else pop the head, and fire
\* it if its time has come (the loop goes on when the callback returns),
\* or arm it and return.
advanceQueue(ret, q, dct, tk) ==
    IF q = <<>>
    THEN /\ queue' = q
         /\ dict' = dct
         /\ ticker' = tk
         /\ Return(ret, ZeroKey, NoTime, FALSE)
    ELSE LET e == Head(q)
         IN  /\ queue' = Tail(q)
             /\ dict' = [dct EXCEPT ![e.Key] = ZeroTime]
             /\ IF e.When - now <= 0
                THEN /\ ticker' = tk
                     /\ doOnTimeout(e.Key, "advance", ret, reg)
                     /\ UNCHANGED <<key, when, waiting, waiters, notified>>
                ELSE /\ ticker' \in TickerReset(tk, e.When - now)
                     /\ Return(ret, e.Key, e.When, TRUE)

\* case t := <-self.addTimeout, the sender being caller c in Put.
WorkerAdd(c) ==
    /\ wk.pc = "select"
    /\ cl[c].pc = "sendAdd"
    /\ cl' = [cl EXCEPT ![c].pc = "recvAdd", ![c].taken = TRUE]
    /\ UNCHANGED <<now, staleTicks, sessVars, trieVars, running, nextCh>>
    /\ LET t == [When |-> cl[c].when, Key |-> cl[c].key]
           r == [reg EXCEPT ![cl[c].key].in = TRUE]
       IN  IF t.When < now
           THEN \* fire immediately without queue
                /\ doOnTimeout(t.Key, "ack", "-", r)
                /\ UNCHANGED <<queue, dict, key, when, waiting, ticker,
                               waiters, notified>>
           ELSE IF ~waiting
           THEN IF t.When - now > 0
                THEN /\ key' = t.Key
                     /\ when' = t.When
                     /\ waiting' = TRUE
                     /\ ticker' \in TickerReset(ticker, t.When - now)
                     /\ wk' = WAck
                     /\ reg' = r
                     /\ UNCHANGED <<keys, queue, dict, waiters, notified,
                                    fired>>
                ELSE /\ doOnTimeout(t.Key, "advance", "add", r)
                     /\ UNCHANGED <<queue, dict, key, when, waiting, ticker,
                                    waiters, notified>>
           ELSE IF t.When < when
           THEN \* pre-empt: the armed entry goes back into the queue
                /\ queue' = insertTimeout(queue, [When |-> when, Key |-> key])
                /\ dict' = [dict EXCEPT ![key] = when]
                /\ UNCHANGED <<waiters, notified>>
                /\ IF t.When - now > 0
                   THEN /\ key' = t.Key
                        /\ when' = t.When
                        /\ waiting' = TRUE
                        /\ \E tk \in TickerStop(ticker) :
                               ticker' \in TickerReset(tk, t.When - now)
                        /\ wk' = WAck
                        /\ reg' = r
                        /\ UNCHANGED <<keys, fired>>
                   ELSE /\ ticker' \in TickerStop(ticker)
                        /\ doOnTimeout(t.Key, "advance", "add", r)
                        /\ UNCHANGED <<key, when, waiting>>
           ELSE \* queue it behind the armed entry
                /\ queue' = insertTimeout(queue, t)
                /\ dict' = [dict EXCEPT ![t.Key] = t.When]
                /\ wk' = WAck
                /\ reg' = r
                /\ UNCHANGED <<keys, key, when, waiting, ticker, waiters,
                               notified, fired>>

\* case k := <-self.delTimeout, the sender being caller c in Put or Delete.
WorkerDel(c) ==
    /\ wk.pc = "select"
    /\ cl[c].pc = "sendDel"
    /\ cl' = [cl EXCEPT ![c].pc = "recvErr", ![c].had = Pending(cl[c].key)]
    /\ UNCHANGED <<now, staleTicks, sessVars, trieVars, running, nextCh>>
    /\ LET k == cl[c].key
       IN  IF k = key /\ waiting
           THEN \E tk \in TickerStop(ticker) :
                    advanceQueue("del", queue, dict, tk)
           ELSE LET f == findTimeout(queue, dict[key])
                IN  /\ UNCHANGED <<keys, key, when, waiting, ticker, waiters,
                                   notified, fired, reg>>
                    /\ IF f.found
                       THEN /\ queue' = removeAt(queue, f.idx)
                            /\ dict' = [dict EXCEPT ![k] = ZeroTime]
                            /\ wk' = WErr(Nil, FALSE)
                       ELSE /\ wk' = WErr(ErrNotFound, TRUE)
                            /\ UNCHANGED <<queue, dict>>

\* self.errchan <- err, the receiver being caller c: Put goes on to send
\* its timeout (time.Now().Add(duration) is taken here), Delete returns err.
WorkerErr(c) ==
    /\ wk.pc = "errsend"
    /\ cl[c].pc = "recvErr"
    /\ wk' = WSelect
    /\ IF wk.fall THEN FireWaiters(waiting) ELSE UNCHANGED <<waiters, notified>>
    /\ IF cl[c].op = "Put"
       THEN /\ cl' = [cl EXCEPT ![c].pc = "sendAdd",
                                ![c].when = now + cl[c].dur]
            /\ reg' = [reg EXCEPT ![cl[c].key] =
                           [st |-> "live", due |-> now + cl[c].dur,
                            in |-> FALSE]]
       ELSE /\ cl' = [cl EXCEPT ![c].pc = Back(cl[c]), ![c].res = wk.err]
            /\ reg' = [reg EXCEPT ![cl[c].key] =
                           [st |-> "deleted", due |-> 0, in |-> FALSE]]
    /\ UNCHANGED <<now, staleTicks, sessVars, trieVars, keys, running, waiting, queue, dict, key, when,
                   ticker, nextCh, fired>>

\* self.addTimeout <- timeout[K]{}, the receiver being caller c, whose Put
\* returns nil.
WorkerAck(c) ==
    /\ wk.pc = "ack"
    /\ cl[c].pc = "recvAdd"
    /\ wk' = WSelect
    /\ cl' = [cl EXCEPT ![c].pc = Back(cl[c]), ![c].res = Nil]
    /\ UNCHANGED <<now, staleTicks, sessVars, trieVars, ttlVars, key, when, ticker, notified, nextCh,
                   histVars>>

\* <-self.addTimeout in Put of caller a receives what caller b sends on
\* addTimeout in its own Put: both channel operations are ready, and a
\* channel pairs any sender with any receiver.  a returns nil, b goes on to
\* wait for its acknowledgement.
PutTakesPut(a, b) ==
    /\ a # b
    /\ cl[a].pc = "recvAdd"
    /\ cl[b].pc = "sendAdd"
    /\ cl' = [cl EXCEPT ![a].pc = Back(cl[a]), ![a].res = Nil,
                         ![b].pc = "recvAdd"]
    /\ UNCHANGED <<now, staleTicks, sessVars, trieVars, ttlVars, workerVars, notified, nextCh,
                   histVars>>

\* case <-ticker.C
WorkerTick ==
    /\ wk.pc = "select"
    /\ TickReady(ticker)
    /\ UNCHANGED <<now, staleTicks, sessVars, trieVars, running, cl, nextCh>>
    /\ LET got == IF ticker.c THEN [ticker EXCEPT !.c = FALSE]
                  ELSE [ticker EXCEPT !.on = FALSE]
       IN  \E tk \in TickerStop(got) :
               IF waiting
               THEN /\ dict' = [dict EXCEPT ![key] = ZeroTime]
                    /\ ticker' = tk
                    /\ doOnTimeout(key, "advance", "tick", reg)
                    /\ UNCHANGED <<queue, key, when, waiting, waiters,
                                   notified>>
               ELSE advanceQueue("tick", queue, dict, tk)

\* What the worker does when self.cb(k) has returned.
cbReturns ==
    IF wk.after = "ack"
    THEN /\ wk' = WAck
         /\ UNCHANGED <<keys, waiting, queue, dict, waiters, key, when,
                        ticker, notified, histVars>>
    ELSE advanceQueue(wk.ret, queue, dict, ticker)

\* self.cb(k) returns (a callback that does not call back into anything).
CallbackReturn ==
    /\ wk.pc = "cb"
    /\ UNCHANGED <<now, staleTicks, sessVars, trieVars, running, cl, nextCh>>
    /\ cbReturns

\* ------------------------------------------------------------ the callers
Idle ==
    [pc |-> "idle", op |-> "-", key |-> ZeroKey, dur |-> 0, when |-> 0,
     res |-> "-", ch |-> 0, had |-> FALSE, taken |-> FALSE, ops |-> 0,
     sop |-> "-", sid |-> ZeroKey, uid |-> ZeroKey, todo |-> {}, sres |-> "-",
     stopped |-> FALSE, again |-> FALSE]

\* A call is made by a thread that is in no call and has calls left.
CanCall(c) == cl[c].pc = "idle" /\ cl[c].ops < MaxOps

Call(c, op, k, d) ==
    [Idle EXCEPT !.op = op, !.key = k, !.dur = d, !.ops = cl[c].ops + 1,
                 !.stopped = cl[c].stopped,
                 !.again = (op = "Delete" /\ cl[c].op = "Delete"
                            /\ cl[c].key = k /\ cl[c].res = Nil)]

\* Put(r.key, r.dur) by thread c up to its send on delTimeout.
ttlPut(c, r) ==
    /\ IF ~running
       THEN /\ cl' = [cl EXCEPT ![c] = [r EXCEPT !.pc = Back(r),
                                                 !.res = ErrNotRunning]]
            /\ UNCHANGED keys
       ELSE /\ cl' = [cl EXCEPT ![c] = [r EXCEPT !.pc = "sendDel"]]
            /\ keys' = keys \cup {r.key}
    /\ UNCHANGED <<now, staleTicks, running, waiting, queue, dict, waiters,
                   workerVars, notified, nextCh, histVars>>

\* Delete(r.key) by thread c up to its send on delTimeout.
ttlDelete(c, r) ==
    /\ IF ~running
       THEN /\ cl' = [cl EXCEPT ![c] = [r EXCEPT !.pc = Back(r),
                                                 !.res = ErrNotRunning]]
            /\ UNCHANGED keys
       ELSE /\ cl' = [cl EXCEPT ![c] = [r EXCEPT !.pc = "sendDel"]]
            /\ keys' = keys \ {r.key}
    /\ UNCHANGED <<now, staleTicks, running, waiting, queue, dict, waiters,
                   workerVars, notified, nextCh, histVars>>

\* A thread calls Put(k, d) on the TTL.
PutCall(c, k, d) ==
    /\ CanCall(c)
    /\ ttlPut(c, Call(c, "Put", k, d))
    /\ UNCHANGED <<sessVars, trieVars>>

\* A thread calls Delete(k) on the TTL.
DeleteCall(c, k) ==
    /\ CanCall(c)
    /\ ttlDelete(c, Call(c, "Delete", k, 0))
    /\ UNCHANGED <<sessVars, trieVars>>

\* A Wait() without the test of emptiness: the channel is always enrolled.
WaitCallEnrolls(c) ==
    /\ CanCall(c)
    /\ nextCh < MaxWaits
    /\ nextCh' = nextCh + 1
    /\ cl' = [cl EXCEPT ![c] = [Call(c, "Wait", ZeroKey, 0) EXCEPT
                                   !.pc = "enroll", !.ch = nextCh + 1]]
    /\ UNCHANGED <<now, staleTicks, sessVars, trieVars, ttlVars, workerVars,
                   notified, histVars>>

\* Wait() up to the end of its look at the queue: on an empty scheduler a
\* goroutine sends on the new channel, else the channel is to be enrolled.
WaitCall(c) ==
    /\ CanCall(c)
    /\ nextCh < MaxWaits
    /\ nextCh' = nextCh + 1
    /\ IF Len(queue) = 0 /\ ~waiting
       THEN /\ notified' = notified \cup {nextCh + 1}
            /\ cl' = [cl EXCEPT ![c] = [Call(c, "Wait", ZeroKey, 0) EXCEPT
                                           !.ch = nextCh + 1]]
       ELSE /\ cl' = [cl EXCEPT ![c] = [Call(c, "Wait", ZeroKey, 0) EXCEPT
                                           !.pc = "enroll", !.ch = nextCh + 1]]
            /\ UNCHANGED notified
    /\ UNCHANGED <<now, staleTicks, sessVars, trieVars, ttlVars, workerVars, histVars>>

\* Wait(): self.waiters = append(self.waiters, c), and return.
WaitEnroll(c) ==
    /\ cl[c].pc = "enroll"
    /\ waiters' = waiters \cup {cl[c].ch}
    /\ cl' = [cl EXCEPT ![c].pc = "idle"]
    /\ UNCHANGED <<now, staleTicks, sessVars, trieVars, keys, running, waiting, queue, dict, workerVars,
                   notified, nextCh, histVars>>

\* Time passes.
Tick ==
    /\ now < MaxTime
    /\ now' = now + 1
    /\ UNCHANGED <<staleTicks, ttlVars, workerVars, callerVars, histVars,
                   sessVars, trieVars>>

\* ------------------------------------------------------------------ Stop
\* A thread calls Stop(): up to its send on pingWorker.
StopCall(c) ==
    /\ CanCall(c)
    /\ cl' = [cl EXCEPT ![c] =
                 IF ~running
                 THEN [Call(c, "Stop", ZeroKey, 0) EXCEPT !.res = ErrNotRunning]
                 ELSE [Call(c, "Stop", ZeroKey, 0) EXCEPT !.pc = "sendPing"]]
    /\ UNCHANGED <<now, staleTicks, sessVars, trieVars, ttlVars, workerVars,
                   notified, nextCh, histVars>>

\* case <-self.pingWorker, the sender being caller c in Stop: ticker.Stop()
\* and break loop.
WorkerPing(c) ==
    /\ wk.pc = "select"
    /\ cl[c].pc = "sendPing"
    /\ cl' = [cl EXCEPT ![c].pc = "recvPing"]
    /\ ticker' \in TickerStop(ticker)
    /\ wk' = [WSelect EXCEPT !.pc = "stopping"]
    /\ UNCHANGED <<now, staleTicks, sessVars, trieVars, ttlVars, key, when,
                   notified, nextCh, histVars>>

\* clear(self.queue) sets every element of the slice to the zero timeout and
\* leaves its length; clear(self.dict) empties the map.
clearQueue(q) == [i \in 1..Len(q) |-> [When |-> ZeroTime, Key |-> ZeroKey]]

\* After the loop: clear(self.queue), clear(self.dict) and
\* self.running.Store(false).
WorkerShutdown ==
    /\ wk.pc = "stopping"
    /\ queue' = clearQueue(queue)
    /\ dict' = [k \in AllKeys |-> ZeroTime]
    /\ running' = FALSE
    /\ wk' = [WSelect EXCEPT !.pc = "pong"]
    /\ UNCHANGED <<now, staleTicks, sessVars, trieVars, keys, waiting, waiters,
                   key, when, ticker, callerVars, histVars>>

\* self.pingWorker <- false, the receiver being caller c, whose Stop
\* returns nil; the goroutine ends.
WorkerPong(c) ==
    /\ wk.pc = "pong"
    /\ cl[c].pc = "recvPing"
    /\ wk' = [WSelect EXCEPT !.pc = "done"]
    /\ cl' = [cl EXCEPT ![c].pc = "idle", ![c].res = Nil, ![c].stopped = TRUE]
    /\ UNCHANGED <<now, staleTicks, sessVars, trieVars, ttlVars, key, when,
                   ticker, notified, nextCh, histVars>>

\* <-self.pingWorker in Stop of caller a receives what caller b sends on
\* pingWorker in its own Stop: a returns nil, b goes on to its receive.
StopTakesStop(a, b) ==
    /\ a # b
    /\ cl[a].pc = "recvPing"
    /\ cl[b].pc = "sendPing"
    /\ cl' = [cl EXCEPT ![a].pc = "idle", ![a].res = Nil, ![a].stopped = TRUE,
                         ![b].pc = "recvPing"]
    /\ UNCHANGED <<now, staleTicks, sessVars, trieVars, ttlVars, workerVars,
                   notified, nextCh, histVars>>

\* ------------------------------------------------- callback into the TTL
\* self.cb(k) calls Delete(j) on the TTL it was given by: on the worker
\* goroutine, Delete takes j off self.keys and sends on delTimeout.
CallbackDelete(j) ==
    /\ wk.pc = "cb"
    /\ running
    /\ wk' = [wk EXCEPT !.pc = "cbSendDel"]
    /\ keys' = keys \ {j}
    /\ UNCHANGED <<now, staleTicks, sessVars, trieVars, running, waiting, queue, dict,
                   waiters, key, when, ticker, callerVars, histVars>>

\* self.cb(k) calls Put(j, d) on the TTL it was given by.
CallbackPut(j) ==
    /\ wk.pc = "cb"
    /\ running
    /\ wk' = [wk EXCEPT !.pc = "cbSendDel"]
    /\ keys' = keys \cup {j}
    /\ UNCHANGED <<now, staleTicks, sessVars, trieVars, running, waiting, queue, dict,
                   waiters, key, when, ticker, callerVars, histVars>>

\* --------------------------------------------------------- sessions.Map
\* Go maps as functions.
EmptyMap == [x \in {} |-> 0]
MapSet(f, k, v) == [x \in DOMAIN f \cup {k} |-> IF x = k THEN v ELSE f[x]]
MapDel(f, k) == [x \in DOMAIN f \ {k} |-> f[x]]
MapGet(f, k, z) == IF k \in DOMAIN f THEN f[k] ELSE z

\* SessionCount() and UserSessionCount(u), which take self.mu.
SessionCount == totalCount
UserSessionCount(u) == MapGet(userCounts, u, 0)

\* Everything a session manager call that returns at once leaves alone.
sessFrame == <<now, staleTicks, ttlVars, workerVars, notified, nextCh, histVars>>

\* Thread c enters session manager call sop.
SCall(c, sop, s, u) ==
    [Idle EXCEPT !.sop = sop, !.sid = s, !.uid = u, !.ops = cl[c].ops + 1,
                 !.stopped = cl[c].stopped]

\* The call's self.timeouts.Put(s, d) or self.timeouts.Delete(s).
TCall(r, op, s, d) ==
    [r EXCEPT !.op = op, !.key = s, !.dur = d, !.res = "-", !.had = FALSE,
              !.taken = FALSE]

\* Thread c returns e from its session manager call.
SDone(c, r, e) == cl' = [cl EXCEPT ![c] = [r EXCEPT !.pc = "idle", !.sres = e]]

\* The three statements that link session s to user u.
linkMaps(s, u) ==
    /\ userToSessions' =
           MapSet(userToSessions, u, MapGet(userToSessions, u, {}) \cup {s})
    /\ sessionToUser' = MapSet(sessionToUser, s, u)
    /\ userCounts' = MapSet(userCounts, u, MapGet(userCounts, u, 0) + 1)

\* Create(d).
Create(c, d) ==
    /\ CanCall(c)
    /\ mu = 0
    /\ UNCHANGED <<capVars, trieVars>>
    /\ IF totalCount = maxSessions
       THEN /\ SDone(c, SCall(c, "Create", ZeroKey, ZeroKey), ErrMaxSessions)
            /\ UNCHANGED <<sessFrame, sessVars>>
       ELSE /\ nextKey < NKeys
            /\ LET id == nextKey + 1
               IN  /\ nextKey' = id
                   /\ sessionDurations' = MapSet(sessionDurations, id, d)
                   /\ ttlPut(c, TCall(SCall(c, "Create", id, ZeroKey),
                                      "Put", id, d))
            /\ mu' = c
            /\ UNCHANGED <<userCounts, userToSessions, sessionToUser,
                           totalCount, live>>

\* CreateLinked(u, d).
CreateLinked(c, u, d) ==
    /\ CanCall(c)
    /\ mu = 0
    /\ UNCHANGED <<capVars, trieVars>>
    /\ IF totalCount = maxSessions
       THEN /\ SDone(c, SCall(c, "CreateLinked", ZeroKey, u), ErrMaxSessions)
            /\ UNCHANGED <<sessFrame, sessVars>>
       ELSE IF u \in DOMAIN userCounts /\ userCounts[u] = maxSessionsPerUser
       THEN /\ SDone(c, SCall(c, "CreateLinked", ZeroKey, u),
                     ErrMaxUserSessions)
            /\ UNCHANGED <<sessFrame, sessVars>>
       ELSE /\ nextKey < NKeys
            /\ LET id == nextKey + 1
               IN  /\ nextKey' = id
                   /\ linkMaps(id, u)
                   /\ sessionDurations' = MapSet(sessionDurations, id, d)
                   /\ ttlPut(c, TCall(SCall(c, "CreateLinked", id, u),
                                      "Put", id, d))
            /\ mu' = c
            /\ UNCHANGED <<totalCount, live>>

\* Link(s, u, extend).
Link(c, s, u, extend) ==
    /\ CanCall(c)
    /\ mu = 0
    /\ UNCHANGED <<capVars, trieVars>>
    /\ IF s \notin DOMAIN sessionDurations
       THEN /\ SDone(c, SCall(c, "Link", s, u), ErrNotFound)
            /\ UNCHANGED <<sessFrame, sessVars>>
       ELSE IF u \in DOMAIN userCounts /\ userCounts[u] = maxSessionsPerUser
       THEN /\ SDone(c, SCall(c, "Link", s, u), ErrMaxUserSessions)
            /\ UNCHANGED <<sessFrame, sessVars>>
       ELSE /\ linkMaps(s, u)
            /\ UNCHANGED <<sessionDurations, totalCount, nextKey, live>>
            /\ IF extend
               THEN /\ ttlPut(c, TCall(SCall(c, "Link", s, u), "Put", s,
                                       sessionDurations[s]))
                    /\ mu' = c
               ELSE /\ SDone(c, SCall(c, "Link", s, u), Nil)
                    /\ UNCHANGED <<sessFrame, mu>>

\* Extend(s), with extend(s).
Extend(c, s) ==
    /\ CanCall(c)
    /\ mu = 0
    /\ UNCHANGED <<capVars, trieVars>>
    /\ IF s \notin DOMAIN sessionToUser
       THEN /\ SDone(c, SCall(c, "Extend", s, ZeroKey), ErrNotFound)
            /\ UNCHANGED <<sessFrame, sessVars>>
       ELSE /\ ttlPut(c, TCall(SCall(c, "Extend", s, ZeroKey), "Put", s,
                               MapGet(sessionDurations, s, 0)))
            /\ mu' = c
            /\ UNCHANGED <<mapVars, nextKey, live>>

\* RemoveSession(s) up to removeSession's self.timeouts.Delete(s).
RemoveSession(c, s) ==
    /\ CanCall(c)
    /\ mu = 0
    /\ UNCHANGED <<capVars, trieVars>>
    /\ mu' = c
    /\ totalCount' = totalCount - 1
    /\ ttlDelete(c, TCall(SCall(c, "RemoveSession", s, ZeroKey), "Delete", s, 0))
    /\ UNCHANGED <<userCounts, userToSessions, sessionToUser,
                   sessionDurations, nextKey, live>>

\* RemoveUser(u) up to the Delete of the first session the range yields.
RemoveUser(c, u) ==
    /\ CanCall(c)
    /\ mu = 0
    /\ UNCHANGED <<capVars, trieVars>>
    /\ IF u \notin DOMAIN userToSessions
       THEN /\ SDone(c, SCall(c, "RemoveUser", ZeroKey, u), Nil)
            /\ UNCHANGED <<sessFrame, sessVars>>
       ELSE /\ mu' = c
            /\ totalCount' = totalCount - 1
            /\ \E s \in userToSessions[u] :
                   ttlDelete(c, TCall([SCall(c, "RemoveUser", s, u) EXCEPT
                                           !.todo = userToSessions[u] \ {s}],
                                      "Delete", s, 0))
            /\ UNCHANGED <<userCounts, userToSessions, sessionToUser,
                           sessionDurations, nextKey, live>>

\* removeSession(s, timedOut) from delete(self.sessionDurations, s) on:
\* the maps it leaves and the error it returns.
removeMaps(s) ==
    LET sd == MapDel(sessionDurations, s)
    IN  IF s \notin DOMAIN sessionToUser
        THEN [uc |-> userCounts, uts |-> userToSessions,
              stu |-> sessionToUser, sd |-> sd, err |-> Nil]
        ELSE LET u == sessionToUser[s]
                 hasCount == u \in DOMAIN userCounts
                 uc == IF ~hasCount \/ userCounts[u] = 0 THEN userCounts
                       ELSE IF userCounts[u] = 1 THEN MapDel(userCounts, u)
                       ELSE MapSet(userCounts, u, userCounts[u] - 1)
                 err == IF ~hasCount \/ userCounts[u] = 0 THEN ErrBug ELSE Nil
                 uts == IF u \notin DOMAIN userToSessions THEN userToSessions
                        ELSE IF userToSessions[u] \ {s} = {}
                             THEN MapDel(userToSessions, u)
                             ELSE MapSet(userToSessions, u,
                                         userToSessions[u] \ {s})
             IN  [uc |-> uc, uts |-> uts, stu |-> MapDel(sessionToUser, s),
                  sd |-> sd, err |-> err]

removeSession(s) ==
    LET m == removeMaps(s)
    IN  /\ userCounts' = m.uc
        /\ userToSessions' = m.uts
        /\ sessionToUser' = m.stu
        /\ sessionDurations' = m.sd
        /\ live' = live \ {s}

\* Thread c's call into the TTL has returned: the rest of its session
\* manager call, up to its return or to the next self.timeouts.Delete.
SReturn(c) ==
    /\ cl[c].pc = "sret"
    /\ UNCHANGED <<nextKey, capVars, trieVars>>
    /\ LET r == cl[c]
       IN  CASE r.sop \in {"Create", "CreateLinked"} ->
                  /\ totalCount' = totalCount + 1
                  /\ live' = live \cup {r.sid}
                  /\ mu' = 0
                  /\ SDone(c, r, Nil)
                  /\ UNCHANGED <<sessFrame, userCounts, userToSessions,
                                 sessionToUser, sessionDurations>>
             [] r.sop = "Link" ->
                  /\ mu' = 0
                  /\ SDone(c, r, Nil)
                  /\ UNCHANGED <<sessFrame, mapVars, live>>
             [] r.sop = "Extend" ->
                  /\ mu' = 0
                  /\ SDone(c, r, r.res)
                  /\ UNCHANGED <<sessFrame, mapVars, live>>
             [] r.sop = "RemoveSession" ->
                  /\ removeSession(r.sid)
                  /\ mu' = 0
                  /\ SDone(c, r, removeMaps(r.sid).err)
                  /\ UNCHANGED <<sessFrame, totalCount>>
             [] r.sop = "RemoveUser" ->
                  /\ removeSession(r.sid)
                  /\ IF r.todo = {}
                     THEN /\ mu' = 0
                          /\ SDone(c, r, Nil)
                          /\ UNCHANGED <<sessFrame, totalCount>>
                     ELSE /\ UNCHANGED mu
                          /\ totalCount' = totalCount - 1
                          /\ \E s \in r.todo :
                                 ttlDelete(c, TCall([r EXCEPT !.sid = s,
                                                       !.todo = r.todo \ {s}],
                                                    "Delete", s, 0))

\* self.cb(k) is Map.timeout(k): it takes self.mu, removeSession(k, true),
\* gives self.mu back and returns to the worker.
Timeout ==
    /\ wk.pc = "cb"
    /\ mu = 0
    /\ totalCount' = totalCount - 1
    /\ removeSession(wk.cb)
    /\ UNCHANGED <<now, staleTicks, running, cl, nextCh, mu, nextKey, capVars,
                   trieVars>>
    /\ cbReturns

\* ----------------------------------------------------------------- Trie
\* A key is a sequence of runes; the empty key is one of the inputs.
Runes == 1..NRunes
TrieKeys == UNION {[1..n -> Runes] : n \in 0..MaxKeyLen}
Vals == 1..NVals

\* new(Node[V]): the root of an empty trie.
EmptyNode == [Prefix |-> <<>>, Value |-> ZeroVal, HasValue |-> FALSE,
              Branches |-> <<>>]

\* &Node[V]{Prefix: p, Value: v, HasValue: true}
ValueNode(p, v) == [Prefix |-> p, Value |-> v, HasValue |-> TRUE,
                    Branches |-> <<>>]

\* s[i:] and s[:i] of a slice s, i counted from 0.
From(s, i) == SubSeq(s, i + 1, Len(s))
Upto(s, i) == SubSeq(s, 1, i)

\* slices.Insert(b, idx, n) and slices.Delete(b, idx, idx+1), idx from 0.
BranchAppend(b, idx, n) == b \o <<n>>
BranchInsert(b, idx, n) == Upto(b, idx) \o <<n>> \o From(b, idx)
BranchDelete(b, idx) == Upto(b, idx) \o From(b, idx + 1)

\* binSearch over the branches b with find's comparison of rune r to the
\* first rune of each branch.
RECURSIVE binSearch(_, _, _, _)
binSearch(b, r, i, j) ==
    IF i < j
    THEN LET h == (i + j) \div 2
         IN  IF r > b[h + 1].Prefix[1]
             THEN binSearch(b, r, h + 1, j)
             ELSE binSearch(b, r, i, h)
    ELSE i

\* Branches.find(r): the index (from 0) of the branch that begins with r,
\* or the index to insert it at.
find(b, r) ==
    LET i == binSearch(b, r, 0, Len(b))
    IN  [idx |-> i, found |-> i < Len(b) /\ b[i + 1].Prefix[1] = r]

\* The i at which the scan of query q along node prefix p stops: the end
\* of q, the end of p, or the first mismatch.
RECURSIVE scan(_, _, _)
scan(q, p, i) ==
    IF i = Len(q) \/ i = Len(p) \/ q[i + 1] # p[i + 1]
    THEN i
    ELSE scan(q, p, i + 1)

\* Put from "restart:" on, at node n with the rest k of the key: the node
\* as Put leaves it, and what Put returns.
RECURSIVE putNode(_, _, _)
putNode(n, k, v) ==
    LET i == scan(k, n.Prefix, 0)
    IN  IF i = Len(k)
        THEN IF i = Len(n.Prefix)
             THEN [node |-> [n EXCEPT !.Value = v, !.HasValue = TRUE],
                   old |-> n.Value, replaced |-> n.HasValue]
             ELSE [node |-> [Prefix |-> k, Value |-> v, HasValue |-> TRUE,
                             Branches |-> <<[n EXCEPT !.Prefix = From(n.Prefix, i)]>>],
                   old |-> ZeroVal, replaced |-> FALSE]
        ELSE IF i = Len(n.Prefix)
        THEN LET f == find(n.Branches, k[i + 1])
             IN  IF ~f.found
                 THEN [node |-> [n EXCEPT !.Branches =
                                    BranchInsert(n.Branches, f.idx,
                                                 ValueNode(From(k, i), v))],
                       old |-> ZeroVal, replaced |-> FALSE]
                 ELSE LET r == putNode(n.Branches[f.idx + 1], From(k, i), v)
                      IN  [node |-> [n EXCEPT !.Branches[f.idx + 1] = r.node],
                           old |-> r.old, replaced |-> r.replaced]
        ELSE LET newNode == ValueNode(From(k, i), v)
                 splitNode == [n EXCEPT !.Prefix = From(n.Prefix, i)]
             IN  [node |-> [Prefix |-> Upto(k, i), Value |-> ZeroVal,
                            HasValue |-> FALSE,
                            Branches |-> IF splitNode.Prefix[1] > newNode.Prefix[1]
                                         THEN <<newNode, splitNode>>
                                         ELSE <<splitNode, newNode>>],
                   old |-> ZeroVal, replaced |-> FALSE]

\* Trie.Put(k, v) on the trie with root t.
triePut(t, k, v) ==
    IF k = <<>>
    THEN [node |-> t, old |-> ZeroVal, replaced |-> FALSE]
    ELSE LET f == find(t.Branches, k[1])
         IN  IF ~f.found
             THEN [node |-> [t EXCEPT !.Branches =
                                BranchInsert(t.Branches, f.idx, ValueNode(k, v))],
                   old |-> ZeroVal, replaced |-> FALSE]
             ELSE LET r == putNode(t.Branches[f.idx + 1], k, v)
                  IN  [node |-> [t EXCEPT !.Branches[f.idx + 1] = r.node],
                       old |-> r.old, replaced |-> r.replaced]

NotFound == [value |-> ZeroVal, found |-> FALSE]

\* Get from "restart:" on, at node n with the rest q of the query.
RECURSIVE getNode(_, _)
getNode(n, q) ==
    LET i == scan(q, n.Prefix, 0)
    IN  IF i = Len(q)
        THEN IF n.HasValue THEN [value |-> n.Value, found |-> TRUE]
                           ELSE NotFound
        ELSE IF i = Len(n.Prefix)
        THEN LET f == find(n.Branches, q[i + 1])
             IN  IF ~f.found THEN NotFound
                 ELSE getNode(n.Branches[f.idx + 1], From(q, i))
        ELSE NotFound

\* Trie.Get(k) and Trie.Exists(k).
trieGet(t, k) ==
    IF k = <<>>
    THEN NotFound
    ELSE LET f == find(t.Branches, k[1])
         IN  IF ~f.found THEN NotFound
             ELSE getNode(t.Branches[f.idx + 1], k)

trieExists(t, k) == trieGet(t, k).found

Miss(n) == [node |-> n, hit |-> FALSE, value |-> ZeroVal, gone |-> FALSE]

\* Delete without compaction, from "restart:" on, at node n with the rest
\* q of the query: the node as Delete leaves it, whether the entry was
\* found, its value, and whether the walk back to the root removes n from
\* its parent.
RECURSIVE delNode(_, _)
delNode(n, q) ==
    LET i == scan(q, n.Prefix, 0)
    IN  IF i = Len(q)
        THEN IF ~n.HasValue THEN Miss(n)
             ELSE [node |-> [n EXCEPT !.Value = ZeroVal, !.HasValue = FALSE],
                   hit |-> TRUE, value |-> n.Value,
                   gone |-> Len(n.Branches) = 0]
        ELSE IF i = Len(n.Prefix)
        THEN LET f == find(n.Branches, q[i + 1])
             IN  IF ~f.found THEN Miss(n)
                 ELSE LET r == delNode(n.Branches[f.idx + 1], From(q, i))
                          b == IF r.gone
                               THEN BranchDelete(n.Branches, f.idx)
                               ELSE [n.Branches EXCEPT ![f.idx + 1] = r.node]
                      IN  IF ~r.hit THEN Miss(n)
                          ELSE [node |-> [n EXCEPT !.Branches = b],
                                hit |-> TRUE, value |-> r.value,
                                gone |-> r.gone /\ Len(b) = 0]
        ELSE Miss(n)

\* The same for the Delete that compacts: the parent n drops a child left
\* without branches and value and, left with one branch and no value,
\* takes that branch's prefix, value and branches.
compact(n, idx, child) ==
    IF Len(child.Branches) = 0 /\ ~child.HasValue
    THEN LET b == BranchDelete(n.Branches, idx)
         IN  IF Len(b) = 1 /\ ~n.HasValue
             THEN [Prefix |-> n.Prefix \o b[1].Prefix, Value |-> b[1].Value,
                   HasValue |-> b[1].HasValue, Branches |-> b[1].Branches]
             ELSE [n EXCEPT !.Branches = b]
    ELSE [n EXCEPT !.Branches[idx + 1] = child]

RECURSIVE delNodeCompact(_, _)
delNodeCompact(n, q) ==
    LET i == scan(q, n.Prefix, 0)
    IN  IF i = Len(q)
        THEN IF ~n.HasValue THEN Miss(n)
             ELSE [node |-> [n EXCEPT !.Value = ZeroVal, !.HasValue = FALSE],
                   hit |-> TRUE, value |-> n.Value, gone |-> FALSE]
        ELSE IF i = Len(n.Prefix)
        THEN LET f == find(n.Branches, q[i + 1])
             IN  IF ~f.found THEN Miss(n)
                 ELSE LET r == delNodeCompact(n.Branches[f.idx + 1], From(q, i))
                      IN  IF ~r.hit THEN Miss(n)
                          ELSE [node |-> compact(n, f.idx, r.node),
                                hit |-> TRUE, value |-> r.value,
                                gone |-> FALSE]
        ELSE Miss(n)

\* Trie.Delete(k) on the trie with root t: the compacting Delete when comp,
\* else the one that only prunes.
trieDelete(t, k, comp) ==
    IF k = <<>>
    THEN [node |-> t, value |-> ZeroVal, deleted |-> FALSE]
    ELSE LET f == find(t.Branches, k[1])
         IN  IF ~f.found
             THEN [node |-> t, value |-> ZeroVal, deleted |-> FALSE]
             ELSE LET c == t.Branches[f.idx + 1]
                      r == IF comp THEN delNodeCompact(c, k) ELSE delNode(c, k)
                      drop == IF comp
                              THEN Len(r.node.Branches) = 0 /\ ~r.node.HasValue
                              ELSE r.gone
                  IN  IF ~r.hit
                      THEN [node |-> t, value |-> ZeroVal, deleted |-> FALSE]
                      ELSE [node |-> [t EXCEPT !.Branches =
                                         IF drop
                                         THEN BranchDelete(t.Branches, f.idx)
                                         ELSE [t.Branches EXCEPT
                                                   ![f.idx + 1] = r.node]],
                            value |-> r.value, deleted |-> TRUE]

\* enum(node, prefix, f): the calls of f it makes, in order, f being a
\* callback that returns false for the keys in stop.  enumFrom is its
\* range over node.Branches from branch j on.
RECURSIVE enum(_, _, _)
RECURSIVE enumFrom(_, _, _, _)
enum(n, prefix, stop) ==
    LET currentKey == prefix \o n.Prefix
        own == IF n.HasValue THEN <<[key |-> currentKey, value |-> n.Value]>>
               ELSE <<>>
    IN  IF n.HasValue /\ currentKey \in stop
        THEN own
        ELSE own \o enumFrom(n.Branches, 1, currentKey, stop)

enumFrom(b, j, currentKey, stop) ==
    IF j > Len(b) THEN <<>>
    ELSE enum(b[j], currentKey, stop) \o enumFrom(b, j + 1, currentKey, stop)

\* enumKeys(node, prefix, f), f returning false for the keys in stop.
RECURSIVE enumKeys(_, _, _)
RECURSIVE enumKeysFrom(_, _, _, _)
enumKeys(n, prefix, stop) ==
    LET currentKey == prefix \o n.Prefix
        own == IF n.HasValue THEN <<[key |-> currentKey, value |-> n.Value]>>
               ELSE <<>>
    IN  IF n.HasValue /\ currentKey \in stop
        THEN own
        ELSE own \o enumKeysFrom(n.Branches, 1, currentKey, stop)

enumKeysFrom(b, j, currentKey, stop) ==
    IF j > Len(b) THEN <<>>
    ELSE enumKeys(b[j], currentKey, stop)
             \o enumKeysFrom(b, j + 1, currentKey, stop)

\* enumValues(node, f), f returning false for the keys in stop; the key of
\* each call is kept to tell the calls apart.
RECURSIVE enumValues(_, _, _)
RECURSIVE enumValuesFrom(_, _, _, _)
enumValues(n, prefix, stop) ==
    LET currentKey == prefix \o n.Prefix
        own == IF n.HasValue THEN <<[key |-> currentKey, value |-> n.Value]>>
               ELSE <<>>
    IN  IF n.HasValue /\ currentKey \in stop
        THEN own
        ELSE own \o enumValuesFrom(n.Branches, 1, currentKey, stop)

enumValuesFrom(b, j, currentKey, stop) ==
    IF j > Len(b) THEN <<>>
    ELSE enumValues(b[j], currentKey, stop)
             \o enumValuesFrom(b, j + 1, currentKey, stop)

\* The loop of Prefixes from node n on: q is what is left of the query and
\* scanned the prefixes of the nodes passed.  The end of the query is tested
\* first, then the end of the node's prefix, then the mismatch.
RECURSIVE prefixesFrom(_, _, _)
prefixesFrom(n, q, scanned) ==
    LET i == scan(q, n.Prefix, 0)
    IN  IF i = Len(q) THEN <<>>
        ELSE IF i = Len(n.Prefix)
        THEN LET sc == scanned \o n.Prefix
                 own == IF n.HasValue THEN <<sc>> ELSE <<>>
                 f == find(n.Branches, q[i + 1])
             IN  IF ~f.found THEN own
                 ELSE own \o prefixesFrom(n.Branches[f.idx + 1], From(q, i), sc)
        ELSE <<>>

\* Trie.Prefixes(k) on the trie with root t.
triePrefixes(t, k) ==
    IF k = <<>> THEN <<>>
    ELSE LET f == find(t.Branches, k[1])
         IN  IF ~f.found THEN <<>>
             ELSE prefixesFrom(t.Branches[f.idx + 1], k, <<>>)

\* The loop of Suffixes from node n on: at the end of the query it
\* enumerates the keys of n and below and keeps those that are not k.
RECURSIVE suffixesFrom(_, _, _, _)
suffixesFrom(n, q, scanned, k) ==
    LET i == scan(q, n.Prefix, 0)
    IN  IF i = Len(q)
        THEN LET e == enumKeys(n, <<>>, {})
                 ks == [j \in 1..Len(e) |-> scanned \o e[j].key]
             IN  SelectSeq(ks, LAMBDA x : x # k)
        ELSE IF i = Len(n.Prefix)
        THEN LET f == find(n.Branches, q[i + 1])
             IN  IF ~f.found THEN <<>>
                 ELSE suffixesFrom(n.Branches[f.idx + 1], From(q, i),
                                   scanned \o n.Prefix, k)
        ELSE <<>>

\* Trie.Suffixes(k) on the trie with root t.
trieSuffixes(t, k) ==
    IF k = <<>> THEN <<>>
    ELSE LET f == find(t.Branches, k[1])
         IN  IF ~f.found THEN <<>>
             ELSE suffixesFrom(t.Branches[f.idx + 1], k, <<>>, k)

\* The last trie call: nothing yet.
NoCall == [op |-> "-", key |-> <<>>, value |-> ZeroVal, ok |-> FALSE,
           had |-> FALSE, hadValue |-> ZeroVal, calls |-> <<>>, stop |-> {},
           out |-> <<>>]

\* A trie call is made while calls are left.
CanTrie == tops < MaxTrieOps

\* Put(k, v): stored is the key-value pairs Put so far and not deleted.
TriePut(k, v) ==
    /\ CanTrie
    /\ LET r == triePut(root, k, v)
       IN  /\ root' = r.node
           /\ tret' = [NoCall EXCEPT !.op = "Put", !.key = k,
                          !.value = r.old, !.ok = r.replaced,
                          !.had = k \in DOMAIN stored,
                          !.hadValue = MapGet(stored, k, ZeroVal)]
    /\ stored' = IF k = <<>> THEN stored ELSE MapSet(stored, k, v)
    /\ tops' = tops + 1
    /\ UNCHANGED <<compacting, nonTrieVars>>

\* Get(k).
TrieGet(k) ==
    /\ CanTrie
    /\ LET r == trieGet(root, k)
       IN  tret' = [NoCall EXCEPT !.op = "Get", !.key = k, !.value = r.value,
                       !.ok = r.found, !.had = k \in DOMAIN stored,
                       !.hadValue = MapGet(stored, k, ZeroVal)]
    /\ tops' = tops + 1
    /\ UNCHANGED <<root, stored, compacting, nonTrieVars>>

\* Delete(k).
TrieDelete(k) ==
    /\ CanTrie
    /\ LET r == trieDelete(root, k, compacting)
       IN  /\ root' = r.node
           /\ tret' = [NoCall EXCEPT !.op = "Delete", !.key = k,
                          !.value = r.value, !.ok = r.deleted,
                          !.had = k \in DOMAIN stored,
                          !.hadValue = MapGet(stored, k, ZeroVal)]
    /\ stored' = MapDel(stored, k)
    /\ tops' = tops + 1
    /\ UNCHANGED <<compacting, nonTrieVars>>

\* Enum(f), EnumKeys(f) or EnumValues(f) with a callback f that returns
\* false for key k.
TrieEnum(which, k) ==
    /\ CanTrie
    /\ tret' = [NoCall EXCEPT !.op = which, !.stop = {k},
                   !.calls = CASE which = "Enum" -> enum(root, <<>>, {k})
                               [] which = "EnumKeys" -> enumKeys(root, <<>>, {k})
                               [] which = "EnumValues" -> enumValues(root, <<>>, {k})]
    /\ tops' = tops + 1
    /\ UNCHANGED <<root, stored, compacting, nonTrieVars>>

\* Prefixes(k): out is the list returned.
TriePrefixes(k) ==
    /\ CanTrie
    /\ tret' = [NoCall EXCEPT !.op = "Prefixes", !.key = k,
                   !.out = triePrefixes(root, k)]
    /\ tops' = tops + 1
    /\ UNCHANGED <<root, stored, compacting, nonTrieVars>>

\* Suffixes(k): out is the list returned.
TrieSuffixes(k) ==
    /\ CanTrie
    /\ tret' = [NoCall EXCEPT !.op = "Suffixes", !.key = k,
                   !.out = trieSuffixes(root, k)]
    /\ tops' = tops + 1
    /\ UNCHANGED <<root, stored, compacting, nonTrieVars>>

\* ------------------------------------------------------------------ Init
\* The state New returns in: the worker is at its select, its ticker runs.
\* ms and mpu are sessions.New's maxSessions and maxSessionsPerUser.
InitWith(ms, mpu) ==
    /\ maxSessions = ms
    /\ maxSessionsPerUser = mpu
    /\ now = 0
    /\ staleTicks \in BOOLEAN
    /\ keys = {}
    /\ running = TRUE
    /\ waiting = FALSE
    /\ queue = <<>>
    /\ dict = [k \in AllKeys |-> ZeroTime]
    /\ waiters = {}
    /\ key = ZeroKey
    /\ when = ZeroTime
    /\ ticker = [on |-> TRUE, at |-> TickerInit, c |-> FALSE]
    /\ wk = WSelect
    /\ cl = [c \in Clients |-> Idle]
    /\ notified = {}
    /\ nextCh = 0
    /\ fired = <<>>
    /\ reg = [k \in AllKeys |-> [st |-> "none", due |-> 0, in |-> FALSE]]
    /\ mu = 0
    /\ userCounts = EmptyMap
    /\ userToSessions = EmptyMap
    /\ sessionToUser = EmptyMap
    /\ sessionDurations = EmptyMap
    /\ totalCount = 0
    /\ nextKey = 0
    /\ live = {}
    /\ root = EmptyNode
    /\ tret = NoCall
    /\ tops = 0
    /\ stored = EmptyMap

Init == InitWith(MaxSessions, MaxPerUser) /\ compacting = TRUE

\* sessions.New called with any caps up to the bounds.
InitSess ==
    /\ \E ms \in 1..MaxSessions, mpu \in 0..MaxPerUser : InitWith(ms, mpu)
    /\ compacting = TRUE

\* The worker's steps.
Worker(c) ==
    \/ WorkerAdd(c)
    \/ WorkerDel(c)
    \/ WorkerErr(c)
    \/ WorkerAck(c)

\* One thread calling Put, Delete and Wait one after the other, a callback
\* that returns.
Next ==
    \/ \E k \in Keys, d \in Durs : PutCall(1, k, d)
    \/ \E k \in Keys : DeleteCall(1, k)
    \/ WaitCall(1)
    \/ WaitEnroll(1)
    \/ Worker(1)
    \/ WorkerTick
    \/ CallbackReturn
    \/ Tick

Spec == Init /\ [][Next]_vars

\* The same on a build whose Stop and Reset discard a sent tick.
InitSync == Init /\ ~staleTicks

SpecSync == InitSync /\ [][Next]_vars

\* Put(k, d) of a key that was not Put before.
PutFresh(c, k, d) == reg[k].st = "none" /\ PutCall(c, k, d)

\* One thread that Puts each key at most once and never Deletes.
NextFresh ==
    \/ \E k \in Keys, d \in Durs : PutFresh(1, k, d)
    \/ Worker(1)
    \/ WorkerTick
    \/ CallbackReturn
    \/ Tick

SpecFresh == Init /\ [][NextFresh]_vars

\* Two threads that Put distinct keys, each key once, at the same time.
NextConc ==
    \/ \E c \in Clients, k \in Keys, d \in Durs :
           (\A o \in Clients : cl[o].key # k) /\ PutFresh(c, k, d)
    \/ \E c \in Clients : Worker(c)
    \/ \E a, b \in Clients : PutTakesPut(a, b)
    \/ WorkerTick
    \/ CallbackReturn
    \/ Tick

SpecConc == Init /\ [][NextConc]_vars

\* trie.New() of either package, the one whose Delete compacts or the other.
InitTrie ==
    /\ InitWith(MaxSessions, MaxPerUser)
    /\ ~staleTicks
    /\ compacting \in BOOLEAN

\* Calls on one trie, one at a time.
NextTrie ==
    \/ \E k \in TrieKeys, v \in Vals : TriePut(k, v)
    \/ \E k \in TrieKeys : TrieGet(k)
    \/ \E k \in TrieKeys : TrieDelete(k)
    \/ \E w \in {"Enum", "EnumKeys", "EnumValues"}, k \in TrieKeys :
           TrieEnum(w, k)
    \/ \E k \in TrieKeys : TriePrefixes(k)
    \/ \E k \in TrieKeys : TrieSuffixes(k)

SpecTrie == InitTrie /\ [][NextTrie]_vars

\* Puts and Gets only.
NextTriePut ==
    \/ \E k \in TrieKeys, v \in Vals : TriePut(k, v)
    \/ \E k \in TrieKeys : TrieGet(k)

SpecTriePut == InitTrie /\ [][NextTriePut]_vars

\* One thread and a callback that calls Put or Delete on the TTL.
NextReenter ==
    \/ \E k \in Keys, d \in Durs : PutCall(1, k, d)
    \/ Worker(1)
    \/ WorkerTick
    \/ \E j \in Keys : CallbackDelete(j)
    \/ \E j \in Keys : CallbackPut(j)
    \/ CallbackReturn
    \/ Tick

SpecReenter == Init /\ [][NextReenter]_vars

\* One thread calling the session manager, whose TTL calls Map.timeout.
NextSess ==
    \/ \E d \in Durs : Create(1, d)
    \/ \E u \in Users, d \in Durs : CreateLinked(1, u, d)
    \/ \E s \in Keys, u \in Users, e \in BOOLEAN : Link(1, s, u, e)
    \/ \E s \in Keys : Extend(1, s)
    \/ \E s \in Keys : RemoveSession(1, s)
    \/ \E u \in Users : RemoveUser(1, u)
    \/ SReturn(1)
    \/ Worker(1)
    \/ WorkerTick
    \/ Timeout
    \/ Tick

SpecSess == InitSess /\ [][NextSess]_vars

\* Threads that call Stop while one of them Puts and Deletes.
NextStop ==
    \/ \E k \in Keys, d \in Durs : PutCall(1, k, d)
    \/ \E k \in Keys : DeleteCall(1, k)
    \/ \E c \in Clients : StopCall(c)
    \/ Worker(1)
    \/ \E c \in Clients : WorkerPing(c)
    \/ WorkerShutdown
    \/ \E c \in Clients : WorkerPong(c)
    \/ \E a, b \in Clients : StopTakesStop(a, b)
    \/ WorkerTick
    \/ CallbackReturn
    \/ Tick

SpecStop == Init /\ [][NextStop]_vars

\* A call made while the other thread is in no call.
PutAlone(k, d) == cl[2].pc = "idle" /\ PutCall(1, k, d)
DeleteAlone(k) == cl[1].pc = "idle" /\ DeleteCall(2, k)

\* Thread 1 Puts and thread 2 Deletes, one call at a time.
NextPutDel ==
    \/ \E k \in Keys, d \in Durs : PutAlone(k, d)
    \/ \E k \in Keys : DeleteAlone(k)
    \/ \E c \in Clients : Worker(c)
    \/ WorkerTick
    \/ CallbackReturn
    \/ Tick

SpecPutDel == InitSync /\ [][NextPutDel]_vars

\* ------------------------------------------------------------ the claims
\* A caller thread is back from a call of op.
Returned(c, op) == cl[c].pc = "idle" /\ cl[c].op = op

\* Wait's own test of emptiness.
PendEmpty == Len(queue) = 0 /\ ~waiting

\* C1: Put on a key that has a pending entry replaces it: the key's latest
\* registration gets one callback and the replaced one none, so no callback
\* is invoked for a key whose latest registration already had its callback.
C1_PutReplaces ==
    \A i \in 1..Len(fired) : fired[i].st # "fired"

\* C2: once Delete(k) has returned, no callback is invoked for k unless k is
\* Put again.
C2_NoCallbackAfterDelete ==
    \A i \in 1..Len(fired) : fired[i].st # "deleted"

\* C3: Delete(k) returns nil when k had a pending entry (armed or queued)
\* and NotFound only when it had none.
C3_DeleteFindsPending ==
    \A c \in Clients :
        Returned(c, "Delete") =>
            /\ cl[c].had => cl[c].res = Nil
            /\ cl[c].res = ErrNotFound => ~cl[c].had

\* C6: a Put that returned nil had its own timeout received by the worker.
C6_PutAccepted ==
    \A c \in Clients :
        (Returned(c, "Put") /\ cl[c].res = Nil) => cl[c].taken

\* C7: keys Put once each, with distinct deadlines and no Delete, get their
\* callbacks in ascending order of deadline: when a callback is invoked, no
\* other key the worker holds has an earlier deadline.
C7_DeadlineOrder ==
    \A i \in 1..Len(fired) :
        \A d \in fired[i].pend : d # fired[i].due => fired[i].due < d

\* C8: a callback is never invoked before the deadline of the key's current
\* registration.
C8_NeverEarly ==
    \A i \in 1..Len(fired) :
        (fired[i].st = "live" /\ fired[i].in) => fired[i].at >= fired[i].due

\* C9: a step that empties the pending set notifies the waiters enrolled at
\* that moment, or leaves the worker on its way to notify them.
C9_EmptyNotifiesWaiters ==
    [][(~PendEmpty /\ PendEmpty') =>
           (waiters \subseteq notified' \/ wk'.fall)]_vars

\* The steps by which the worker serves a thread or comes back from a
\* callback.
WorkerStep ==
    \/ \E c \in Clients : Worker(c)
    \/ WorkerTick
    \/ CallbackReturn

\* C5: a callback that calls Put or Delete on its own TTL does not block the
\* worker: while the callback is in the nested call, the worker can take a
\* step.
C5_NestedCallReturns ==
    wk.pc = "cbSendDel" => ENABLED WorkerStep

\* The steps of the session manager's thread and of the worker under it.
SessStep ==
    \/ SReturn(1)
    \/ Worker(1)
    \/ WorkerTick
    \/ Timeout

\* C4: while a session manager call is in flight or Map.timeout has been
\* called, the thread or the worker can take a step.
C4_NoDeadlock ==
    (cl[1].pc # "idle" \/ wk.pc = "cb") => ENABLED SessStep

\* C10: whenever self.mu is free, SessionCount() is the number of live
\* sessions and is not negative.
C10_SessionCount ==
    mu = 0 => (SessionCount = Cardinality(live) /\ SessionCount >= 0)

\* The session manager's thread is back from a call of sop.
SReturned(c, sop) == cl[c].pc = "idle" /\ cl[c].sop = sop

\* The live sessions that session->user gives to user u.
LinkedTo(u) ==
    {s \in live : s \in DOMAIN sessionToUser /\ sessionToUser[s] = u}

\* C11: once RemoveSession(s), or RemoveUser of its owner, has returned, the
\* TTL holds no pending entry for s.
C11_RemoveCancels ==
    \A c \in Clients :
        (SReturned(c, "RemoveSession") \/ SReturned(c, "RemoveUser")) =>
            ~Pending(cl[c].sid)

\* C12: the number of live sessions never exceeds maxSessions.
C12_GlobalCap ==
    Cardinality(live) <= maxSessions

\* C13: whenever self.mu is free, UserSessionCount(u) is the number of live
\* sessions linked to u, for every user u.
C13_UserCount ==
    mu = 0 => \A u \in Users : UserSessionCount(u) = Cardinality(LinkedTo(u))

\* C14: the number of live sessions linked to a user never exceeds
\* maxSessionsPerUser, whatever maxSessionsPerUser >= 0 is.
C14_UserCap ==
    mu = 0 => \A u \in Users : Cardinality(LinkedTo(u)) <= maxSessionsPerUser

\* C18: Extend(s) returns NotFound only when s is no live session.
C18_ExtendLive ==
    \A c \in Clients :
        (SReturned(c, "Extend") /\ cl[c].sres = ErrNotFound) =>
            cl[c].sid \notin live

\* C19: RemoveSession of an ID that is no live session changes no index and
\* no counter when it is called, and returns NotFound.
C19_RemoveUnknown ==
    [][/\ (/\ cl[1].pc = "idle"
           /\ cl'[1].pc # "idle"
           /\ cl'[1].sop = "RemoveSession"
           /\ cl'[1].sid \notin live) => mapVars' = mapVars
       /\ (/\ cl[1].pc = "sret"
           /\ cl[1].sop = "RemoveSession"
           /\ cl[1].sid \notin live) => cl'[1].sres = ErrNotFound]_vars

\* C20: every removal RemoveUser(u) makes leaves the count of every other
\* user as it was, and when RemoveUser(u) returns UserSessionCount(u) is 0.
C20_RemoveUserFrame ==
    [][(cl[1].pc = "sret" /\ cl[1].sop = "RemoveUser") =>
           /\ \A v \in Users \ {cl[1].uid} :
                  MapGet(userCounts', v, 0) = UserSessionCount(v)
           /\ cl'[1].pc = "idle" => MapGet(userCounts', cl[1].uid, 0) = 0]_vars

\* What Get(k) returns on a trie that holds the pairs of m.
Expected(m, k) ==
    IF k \in DOMAIN m THEN [value |-> m[k], found |-> TRUE] ELSE NotFound

\* C15: Delete(k) of a stored key returns (value, true), after it Get(k) is
\* not-found and Get(j) is what it was for every other key j.
C15_DeleteFrame ==
    [][(/\ tops' = tops + 1
        /\ tret'.op = "Delete"
        /\ tret'.had
        /\ trieGet(root, tret'.key) = Expected(stored, tret'.key)) =>
           /\ tret'.ok /\ tret'.value = trieGet(root, tret'.key).value
           /\ ~trieGet(root', tret'.key).found
           /\ \A j \in TrieKeys \ {tret'.key} :
                  trieGet(root', j) = trieGet(root, j)]_vars

\* C16: after any sequence of Puts, Get(k) returns the value of the last
\* Put of k and not-found for a key never Put, and each Put returned the
\* value it replaced.
C16_PutGet ==
    /\ \A k \in TrieKeys : trieGet(root, k) = Expected(stored, k)
    /\ tret.op = "Put" => (tret.ok = tret.had /\ tret.value = tret.hadValue)

\* C17: an enumeration makes no call of the callback after the call in
\* which the callback returned false.
C17_EnumAbort ==
    tret.op \in {"Enum", "EnumKeys", "EnumValues"} =>
        \A i \in 1..Len(tret.calls) :
            tret.calls[i].key \in tret.stop => i = Len(tret.calls)

\* C21: when Map.timeout is called for a live session and returns, the
\* session is in no index, SessionCount and its owner's count have dropped
\* by one, and removeSession has met no error.
C21_TimeoutRemoves ==
    [][(wk.pc = "cb" /\ wk'.pc # "cb" /\ wk.cb \in live) =>
           LET s == wk.cb
           IN  /\ s \notin DOMAIN sessionToUser'
               /\ s \notin DOMAIN sessionDurations'
               /\ \A u \in DOMAIN userToSessions' : s \notin userToSessions'[u]
               /\ totalCount' = totalCount - 1
               /\ s \in DOMAIN sessionToUser =>
                      MapGet(userCounts', sessionToUser[s], 0) =
                          UserSessionCount(sessionToUser[s]) - 1
               /\ removeMaps(s).err = Nil]_vars

\* C22: Put(k, d) with d <= 0 does not wait for the callback for k: the
\* callback for k does not run while that Put is waiting for the worker's
\* acknowledgement.
C22_PutAsync ==
    \A c \in Clients :
        (cl[c].op = "Put" /\ cl[c].dur <= 0 /\ cl[c].pc = "recvAdd") =>
            ~(wk.pc = "cb" /\ wk.cb = cl[c].key)

\* No call is in flight and the worker is at its select.
Quiescent == wk.pc = "select" /\ \A c \in Clients : cl[c].pc = "idle"

\* C23: when Put(k, d) with d <= 0 has returned, k's callback has been
\* invoked for that Put, k is not pending and Exists(k) is false.
C23_ZeroNotPending ==
    \A c \in Clients :
        (Returned(c, "Put") /\ cl[c].dur <= 0 /\ cl[c].res = Nil) =>
            /\ reg[cl[c].key].st = "fired"
            /\ ~Pending(cl[c].key)
            /\ ~Exists(cl[c].key)

\* C24: at a quiescent point Len() is the number of distinct keys that have
\* a pending entry, the armed one counted once.
C24_LenCountsKeys ==
    Quiescent => TTLLen = Cardinality({k \in AllKeys : Pending(k)})

\* C25: at a quiescent point Exists(k) is true exactly when k has a pending
\* entry, armed or queued.
C25_ExistsIffPending ==
    Quiescent => \A k \in Keys : Exists(k) <=> Pending(k)

\* C26: while the callback for k runs, Exists(k) is false and Len() counts
\* at most the other keys that have a registration.
C26_RemovedBeforeCallback ==
    wk.pc = "cb" =>
        /\ ~Exists(wk.cb)
        /\ TTLLen <= Cardinality({j \in Keys \ {wk.cb} : reg[j].st = "live"})

\* k has no pending registration when thread c's Delete(k) reaches the
\* worker: k was never Put, or the callback of its latest Put was invoked,
\* or the Delete follows a Delete(k) that returned nil with no Put between.
NotRegistered(c) ==
    \/ reg[cl[c].key].st \in {"none", "fired"}
    \/ reg[cl[c].key].st = "deleted" /\ cl[c].again

\* C29: Delete(k) of a key with no pending registration leaves the queue,
\* the armed entry and the ticker as they are and returns NotFound.
C29_DeleteUnknown ==
    [][\A c \in Clients :
           (/\ cl[c].pc = "sendDel"
            /\ cl[c].op = "Delete"
            /\ cl'[c].pc = "recvErr"
            /\ NotRegistered(c)) =>
               /\ <<queue, key, when, waiting, ticker>>' =
                      <<queue, key, when, waiting, ticker>>
               /\ wk'.err = ErrNotFound]_vars

\* C30: a Wait call made while the scheduler holds no entry returns a
\* channel that has been notified, however many such calls are made.
C30_WaitOnEmpty ==
    [][\A c \in Clients :
           (cl[c].pc = "idle" /\ cl'[c].op = "Wait" /\ cl'[c].ops = cl[c].ops + 1
            /\ PendEmpty) =>
               /\ cl'[c].pc = "idle"
               /\ cl'[c].ch \in notified'
               /\ cl'[c].ch \notin notified]_vars

\* A Stop has returned nil.
StopReturned == \E c \in Clients : cl[c].stopped

\* C27: a Put, Delete or Stop called after a Stop has returned returns
\* NotRunning at once and leaves the scheduler's fields as they are.
C27_AfterStop ==
    [][\A c \in Clients :
           (/\ StopReturned
            /\ cl[c].pc = "idle"
            /\ cl'[c].ops = cl[c].ops + 1
            /\ cl'[c].op \in {"Put", "Delete", "Stop"}) =>
               /\ cl'[c].pc = "idle"
               /\ cl'[c].res = ErrNotRunning
               /\ ttlVars' = ttlVars]_vars

\* C28: once Stop has returned and no call is in flight, Len() is 0,
\* Exists(k) is false for every key and no callback is running.
C28_StopClears ==
    (StopReturned /\ \A c \in Clients : cl[c].pc = "idle") =>
        /\ TTLLen = 0
        /\ \A k \in Keys : ~Exists(k)
        /\ wk.pc # "cb"

\* C30 is met by two Wait calls on a scheduler that was never given a key:
\* both channels are notified and none is enrolled.
C30_TwoWaitsOnEmpty ==
    /\ Returned(1, "Wait")
    /\ nextCh >= 2
    /\ notified = 1..nextCh
    /\ waiters = {}
    /\ \A k \in Keys : reg[k].st = "none"

\* C34: at a quiescent point no key occurs twice in the queue and the armed
\* key does not occur in the queue.
C34_OneEntryPerKey ==
    Quiescent =>
        /\ \A i, j \in 1..Len(queue) : queue[i].Key = queue[j].Key => i = j
        /\ waiting => ~Queued(key)

\* The entries the scheduler holds for key j with deadline w, the armed one
\* included.
EntryCount(q, a, ak, aw, j, w) ==
    Cardinality({i \in 1..Len(q) : q[i].Key = j /\ q[i].When = w})
        + (IF a /\ ak = j /\ aw = w THEN 1 ELSE 0)

\* C36: when the worker serves the cancel of k, by Delete(k) or by Put(k),
\* every other key that is pending keeps an entry with the deadline of its
\* last Put.
C36_DeleteFrame ==
    [][\A c \in Clients :
           (cl[c].pc = "sendDel" /\ cl'[c].pc = "recvErr") =>
               \A j \in Keys \ {cl[c].key} :
                   (/\ reg[j].st = "live"
                    /\ reg[j].due > now
                    /\ EntryCount(queue, waiting, key, when, j, reg[j].due) > 0) =>
                       EntryCount(queue', waiting', key', when', j, reg[j].due) > 0]_vars

\* The steps that take a call on the TTL further while Stop may be called.
StopStep ==
    \/ Worker(1)
    \/ \E c \in Clients : WorkerPing(c)
    \/ WorkerShutdown
    \/ \E c \in Clients : WorkerPong(c)
    \/ \E a, b \in Clients : StopTakesStop(a, b)
    \/ WorkerTick
    \/ CallbackReturn

\* C37: a thread inside Put, Delete or Stop is never left without a step
\* that can take a call further, also when Stop is called at the same time.
C37_CallsReturn ==
    (\E c \in Clients : cl[c].pc # "idle") => ENABLED StopStep

\* C38: a channel that Wait enrolls when the pending set has already become
\* empty, the worker being back at its select with its ticker stopped, is
\* notified all the same.
C38_NoLostWakeup ==
    [][\A c \in Clients :
           (/\ cl[c].pc = "enroll"
            /\ cl'[c].pc = "idle"
            /\ PendEmpty
            /\ wk.pc = "select"
            /\ ~ticker.on /\ ~ticker.c) =>
               cl[c].ch \in notified']_vars

\* C39: whenever self.mu is free, s is in the session set of u exactly when
\* session->user maps s to u, and every session in session->user is live.
C39_IndexesAgree ==
    mu = 0 =>
        /\ \A u \in Users, s \in Keys :
               (u \in DOMAIN userToSessions /\ s \in userToSessions[u]) <=>
                   (s \in DOMAIN sessionToUser /\ sessionToUser[s] = u)
        /\ \A s \in DOMAIN sessionToUser : s \in live

\* C31: Prefixes(s) of a non-empty s returns the stored keys that are
\* strict prefixes of s, every one of them, from the shortest to the longest.
C31_Prefixes ==
    (tret.op = "Prefixes" /\ tret.key # <<>>) =>
        /\ \A j \in 1..Len(tret.out) :
               /\ tret.out[j] \in DOMAIN stored
               /\ Len(tret.out[j]) < Len(tret.key)
               /\ tret.out[j] = Upto(tret.key, Len(tret.out[j]))
        /\ \A n \in 1..(Len(tret.key) - 1) :
               Upto(tret.key, n) \in DOMAIN stored =>
                   \E j \in 1..Len(tret.out) : tret.out[j] = Upto(tret.key, n)
        /\ \A i, j \in 1..Len(tret.out) :
               i < j => Len(tret.out[i]) < Len(tret.out[j])

\* C32: Suffixes(s) of a non-empty s returns the stored keys that have s as
\* a strict prefix, every one of them once, and never s.
C32_Suffixes ==
    (tret.op = "Suffixes" /\ tret.key # <<>>) =>
        /\ {tret.out[j] : j \in 1..Len(tret.out)} =
               {k \in DOMAIN stored :
                    /\ Len(k) > Len(tret.key)
                    /\ Upto(k, Len(tret.key)) = tret.key}
        /\ \A i, j \in 1..Len(tret.out) : tret.out[i] = tret.out[j] => i = j

\* Key a comes before key b in depth-first pre-order: a is a strict prefix
\* of b, or a has the lesser rune where they first differ.
PreOrder(a, b) ==
    \E n \in 0..Len(a) :
        /\ n <= Len(b)
        /\ Upto(a, n) = Upto(b, n)
        /\ \/ n = Len(a) /\ n < Len(b)
           \/ n < Len(a) /\ n < Len(b) /\ a[n + 1] < b[n + 1]

\* C33: EnumKeys with a callback that returned true every time has called
\* it for the stored keys, every one of them once, in pre-order.
C33_EnumKeysAll ==
    (/\ tret.op = "EnumKeys"
     /\ \A j \in 1..Len(tret.calls) : tret.calls[j].key \notin tret.stop) =>
        /\ {tret.calls[j].key : j \in 1..Len(tret.calls)} = DOMAIN stored
        /\ \A i, j \in 1..Len(tret.calls) :
               i < j => PreOrder(tret.calls[i].key, tret.calls[j].key)

\* No node below n, n not counted, is without a value and with fewer than
\* two branches.
RECURSIVE Merged(_)
Merged(n) ==
    \A j \in 1..Len(n.Branches) :
        /\ n.Branches[j].HasValue \/ Len(n.Branches[j].Branches) >= 2
        /\ Merged(n.Branches[j])

\* C35: the Delete that merges leaves no node but the root without a value
\* and with one branch or none.
C35_DeleteMerges ==
    [][(tops' = tops + 1 /\ tret'.op = "Delete" /\ compacting) =>
           Merged(root')]_vars

\* The branches of n and of every node below it are in strictly ascending
\* order of their first rune, and their prefixes are not empty.
RECURSIVE Ordered(_)
Ordered(n) ==
    /\ \A j \in 1..Len(n.Branches) :
           /\ Len(n.Branches[j].Prefix) > 0
           /\ Ordered(n.Branches[j])
    /\ \A i, j \in 1..Len(n.Branches) :
           i < j => n.Branches[i].Prefix[1] < n.Branches[j].Prefix[1]

\* C40: the branches of every node are strictly ascending by first rune and
\* every node but the root has a prefix.
C40_BranchesOrdered == Ordered(root)

\* C40: a Delete has taken the branch of its key away from before a branch
\* with a greater first rune, which stays.
C40_DeletedBeforeSibling ==
    /\ tret.op = "Delete"
    /\ tret.ok
    /\ tret.key # <<>>
    /\ root.Branches # <<>>
    /\ tret.key[1] < root.Branches[1].Prefix[1]

====
